---- MODULE Spec2Model ----
(***************************************************************************)
(* pyatv: the MRP pairing handler (pyatv/protocols/mrp/pairing.py) and the *)
(* AirPlay verify_connection helper (pyatv/protocols/airplay/auth).        *)
(*                                                                         *)
(* Python values: an Optional value is a sequence of length 0 (None) or 1  *)
(* (the value); a str is a sequence of one-character strings.              *)
(***************************************************************************)
EXTENDS Integers, Sequences, FiniteSets, TLC

VARIABLES
    pin_code,       \* h -> Optional str: MrpPairingHandler.pin_code
    has_paired,     \* h -> BOOLEAN: MrpPairingHandler._has_paired
    credentials,    \* h -> Optional str: service.credentials of h's service
    connection,     \* h -> "open" | "closed": h's MrpConnection
    pc,             \* h -> where h's begin()/finish() coroutine is suspended
    reply,          \* h -> Optional outcome of the exchange awaited at pc[h]
    call,           \* h -> record of the current (or last) begin()/finish() call
    hist,           \* h -> what has been called on h so far
    receive_processor, \* HttpConnection.receive_processor
    send_processor,    \* HttpConnection.send_processor
    running,        \* the task the event loop is executing (0: none)
    task,           \* t -> frame of t's verify_connection call
    ncalls,         \* verify_connection calls made so far
    installs,       \* completed installs of the two hooks on the connection
    service,        \* the AirPlay service handed to extract_credentials
    sel,            \* the last call of pair_setup, pair_verify, extract_credentials
                    \* or of a method of the Null verifier, with its result
    services,       \* AppleTV._services: protocol -> service
    confres         \* the last add_service or main_service call, with its result

hvars == <<pin_code, has_paired, credentials, connection, pc, reply, call, hist>>
avars == <<receive_processor, send_processor, running, task, ncalls, installs>>
svars == <<service, sel>>
cvars == <<services, confres>>
vars == <<pin_code, has_paired, credentials, connection, pc, reply, call, hist,
          receive_processor, send_processor, running, task, ncalls, installs,
          service, sel, services, confres>>

-----------------------------------------------------------------------------
(* Bounds and program constants *)

\* largest integer PIN the caller passes to pin()
MaxPinInt == 1
\* verify_connection calls made on the one connection
MaxCalls == 3
\* service objects handed to add_service
MaxServices == 4
\* width of the zero padding, pin(): str(pin).zfill(4)
PinWidth == 4

-----------------------------------------------------------------------------
(* Python values *)

None == <<>>
Some(v) == <<v>>
IsNone(o) == Len(o) = 0
Val(o) == o[1]

DigitChar(d) == <<"0", "1", "2", "3", "4", "5", "6", "7", "8", "9">>[d + 1]

\* str(n) of a non-negative int
RECURSIVE IntStr(_)
IntStr(n) ==
    IF n < 10 THEN <<DigitChar(n)>>
    ELSE IntStr(n \div 10) \o <<DigitChar(n % 10)>>

\* a value passed to pin(): an int or a str
IntPin(n) == [t |-> "int", v |-> n, s |-> <<>>]
StrPin(s) == [t |-> "str", v |-> 0, s |-> s]

\* str(pin)
PyStr(p) == IF p.t = "int" THEN IntStr(p.v) ELSE p.s

Zeros(n) == [i \in 1..n |-> "0"]

\* str(pin) stored as it is, without zfill
Zfill_NoPad(s, width) == s

\* str.zfill(width): pads on the left, after a leading sign
Zfill(s, width) ==
    IF Len(s) >= width THEN s
    ELSE IF Len(s) > 0 /\ s[1] \in {"+", "-"}
         THEN <<s[1]>> \o Zeros(width - Len(s)) \o Tail(s)
         ELSE Zeros(width - Len(s)) \o s

\* truth value of an Optional str: None and "" are false
Truthy(o) == ~IsNone(o) /\ Len(Val(o)) > 0

PinStrings == { <<>>, <<"1", "2">>, <<"-", "7">>, <<"1", "2", "3", "4", "5">> }
PinInputs == { IntPin(n) : n \in 0..MaxPinInt } \cup { StrPin(s) : s \in PinStrings }

-----------------------------------------------------------------------------
(* Collaborators of the handler that live outside pairing.py *)

\* objects finish_pairing may hand back; str() of each is its token
CredA == [kind |-> "HapCredentials", f |-> <<"ltpkA", "ltskA", "atvA", "clientA">>]
CredB == [kind |-> "HapCredentials", f |-> <<"ltpkB", "ltskB", "atvB", "clientB">>]
PyNone == [kind |-> "NoneType", f |-> <<>>]
FinishPairingReturns == {CredA, CredB, PyNone}

\* a token is the sequence of its colon-separated fields
ObjStr(o) == IF o.kind = "HapCredentials" THEN o.f ELSE <<"None">>

\* a credential stored on the service before the handler was made
OldToken == <<"ltpkO", "ltskO", "atvO", "clientO">>

\* parse_credentials: a typed structure, or a parse error
parse_credentials(tok) ==
    IF Len(tok) = 4 THEN [ok |-> TRUE, type |-> "HAP", f |-> tok]
    ELSE IF Len(tok) = 2 THEN [ok |-> TRUE, type |-> "Legacy", f |-> tok]
    ELSE [ok |-> FALSE, type |-> "", f |-> tok]

Ok(v) == [ok |-> TRUE, val |-> v]
Failed == [ok |-> FALSE, val |-> PyNone]

\* what the device exchange awaited at position p can come back with; an
\* exchange on a released connection is aborted
Outcomes(p, conn) ==
    IF conn = "closed" THEN {Failed}
    ELSE IF p = "finish_pairing" THEN {Failed} \cup {Ok(o) : o \in FinishPairingReturns}
    ELSE {Failed, Ok(PyNone)}

\* support.error_handler(func, fallback): the result of func, or fallback raised
error_handler(outcome, fallback) ==
    IF outcome.ok THEN [raised |-> FALSE, error |-> "", val |-> outcome.val]
    ELSE [raised |-> TRUE, error |-> fallback, val |-> PyNone]

\* MrpConnection.close() and PairingHandler.close(): release, from any state,
\* without an error
ConnClose(conn) == [state |-> "closed", raised |-> FALSE]

-----------------------------------------------------------------------------
(* The record kept of a begin()/finish() call *)

NoCall ==
    [name |-> "none", status |-> "none", error |-> "", msg |-> "",
     cred_before |-> None, token |-> None,
     n_start |-> 0, n_fp |-> 0, n_vc |-> 0, fp |-> "-", vc |-> "-",
     stored |-> FALSE, interrupted |-> FALSE,
     pin_given |-> FALSE, begun |-> FALSE, after_finish |-> FALSE]

NewCall(h, name) ==
    [NoCall EXCEPT !.name = name, !.status = "running",
                   !.cred_before = credentials[h],
                   !.pin_given = hist[h].pin_called,
                   !.begun = hist[h].begin_called,
                   !.after_finish = hist[h].finish_done]

Raised(c, error, msg) == [c EXCEPT !.status = "raised", !.error = error, !.msg = msg]
Returned(c) == [c EXCEPT !.status = "returned"]

-----------------------------------------------------------------------------
(* MrpPairingHandler *)

Handlers == DOMAIN pc

\* __init__: no PIN, not paired; the service may already hold a credential
InitHandlers(H) ==
    /\ pin_code = [h \in H |-> None]
    /\ has_paired = [h \in H |-> FALSE]
    /\ credentials \in [H -> {None, Some(OldToken)}]
    /\ connection = [h \in H |-> "open"]
    /\ pc = [h \in H |-> "idle"]
    /\ reply = [h \in H |-> None]
    /\ call = [h \in H |-> NoCall]
    /\ hist = [h \in H |-> [begin_called |-> FALSE, pin_called |-> FALSE,
                            finish_done |-> FALSE, closes |-> 0,
                            close_raised |-> FALSE, last_ok |-> None]]

\* begin(): up to the await of start_pairing
Begin(h) ==
    /\ pc[h] = "idle"
    /\ pc' = [pc EXCEPT ![h] = "start_pairing"]
    /\ reply' = [reply EXCEPT ![h] = None]
    /\ call' = [call EXCEPT ![h] = [NewCall(h, "begin") EXCEPT !.n_start = 1]]
    /\ hist' = [hist EXCEPT ![h].begin_called = TRUE]
    /\ UNCHANGED <<pin_code, has_paired, credentials, connection>>

\* the device answers, or the exchange fails
DeviceReply(h) ==
    /\ pc[h] # "idle"
    /\ IsNone(reply[h])
    /\ \E o \in Outcomes(pc[h], connection[h]) : reply' = [reply EXCEPT ![h] = Some(o)]
    /\ UNCHANGED <<pin_code, has_paired, credentials, connection, pc, call, hist>>

\* begin() that lets a failure of start_pairing pass as a normal return
BeginResume_Swallow(h) ==
    /\ pc[h] = "start_pairing"
    /\ ~IsNone(reply[h])
    /\ call' = [call EXCEPT ![h] = Returned(@)]
    /\ pc' = [pc EXCEPT ![h] = "idle"]
    /\ reply' = [reply EXCEPT ![h] = None]
    /\ UNCHANGED <<pin_code, has_paired, credentials, connection, hist>>

\* begin(): start_pairing is back
BeginResume(h) ==
    /\ pc[h] = "start_pairing"
    /\ ~IsNone(reply[h])
    /\ LET r == error_handler(Val(reply[h]), "PairingError") IN
       call' = [call EXCEPT ![h] =
                   IF r.raised THEN Raised(@, r.error, "start_pairing") ELSE Returned(@)]
    /\ pc' = [pc EXCEPT ![h] = "idle"]
    /\ reply' = [reply EXCEPT ![h] = None]
    /\ UNCHANGED <<pin_code, has_paired, credentials, connection, hist>>

\* pin() with pin_code kept on the class, not on the instance
Pin_OnClass(h, p) ==
    /\ pin_code' = [g \in Handlers |-> Some(Zfill(PyStr(p), PinWidth))]
    /\ hist' = [hist EXCEPT ![h].pin_called = TRUE]
    /\ UNCHANGED <<has_paired, credentials, connection, pc, reply, call>>

\* pin(pin)
Pin(h, p) ==
    /\ pin_code' = [pin_code EXCEPT ![h] = Some(Zfill(PyStr(p), PinWidth))]
    /\ hist' = [hist EXCEPT ![h].pin_called = TRUE]
    /\ UNCHANGED <<has_paired, credentials, connection, pc, reply, call>>

\* "if self.pin_code == ''": a PIN that was never given passes
NoPinGiven_EmptyOnly(p) == ~IsNone(p) /\ Len(Val(p)) = 0

\* finish(): "if not self.pin_code"
NoPinGiven(p) == ~Truthy(p)

\* finish(): up to the await of finish_pairing
Finish(h) ==
    /\ pc[h] = "idle"
    /\ IF NoPinGiven(pin_code[h])
       THEN /\ call' = [call EXCEPT ![h] =
                           Raised(NewCall(h, "finish"), "PairingError", "no pin given")]
            /\ UNCHANGED <<pc, hist>>
       ELSE /\ call' = [call EXCEPT ![h] = [NewCall(h, "finish") EXCEPT !.n_fp = 1]]
            /\ pc' = [pc EXCEPT ![h] = "finish_pairing"]
            /\ UNCHANGED hist
    /\ reply' = [reply EXCEPT ![h] = None]
    /\ UNCHANGED <<pin_code, has_paired, credentials, connection>>

\* finish() that awaits finish_pairing a second time when the first failed
FinishAfterPairing_Retry(h) ==
    /\ pc[h] = "finish_pairing"
    /\ ~IsNone(reply[h])
    /\ LET r == error_handler(Val(reply[h]), "PairingError")
           tok == ObjStr(r.val)
       IN  IF r.raised /\ call[h].n_fp < 2
           THEN /\ call' = [call EXCEPT ![h].n_fp = @ + 1]
                /\ UNCHANGED <<pc, hist>>
           ELSE IF r.raised
           THEN /\ call' = [call EXCEPT ![h] =
                               Raised([@ EXCEPT !.fp = "fail"], r.error, "finish_pairing")]
                /\ pc' = [pc EXCEPT ![h] = "idle"]
                /\ hist' = [hist EXCEPT ![h].finish_done = TRUE]
           ELSE IF ~parse_credentials(tok).ok
           THEN /\ call' = [call EXCEPT ![h] =
                               Raised([@ EXCEPT !.fp = "ok", !.token = Some(tok)],
                                      "InvalidCredentialsError", "parse_credentials")]
                /\ pc' = [pc EXCEPT ![h] = "idle"]
                /\ hist' = [hist EXCEPT ![h].finish_done = TRUE]
           ELSE /\ call' = [call EXCEPT ![h] =
                               [@ EXCEPT !.fp = "ok", !.token = Some(tok), !.n_vc = @ + 1]]
                /\ pc' = [pc EXCEPT ![h] = "verify_credentials"]
                /\ UNCHANGED hist
    /\ reply' = [reply EXCEPT ![h] = None]
    /\ UNCHANGED <<pin_code, has_paired, credentials, connection>>

\* finish() that stores the credential as soon as finish_pairing is back
FinishAfterPairing_StoreEarly(h) ==
    /\ pc[h] = "finish_pairing"
    /\ ~IsNone(reply[h])
    /\ LET r == error_handler(Val(reply[h]), "PairingError")
           tok == ObjStr(r.val)
       IN  IF r.raised
           THEN /\ call' = [call EXCEPT ![h] =
                               Raised([@ EXCEPT !.fp = "fail"], r.error, "finish_pairing")]
                /\ pc' = [pc EXCEPT ![h] = "idle"]
                /\ hist' = [hist EXCEPT ![h].finish_done = TRUE]
                /\ UNCHANGED credentials
           ELSE /\ credentials' = [credentials EXCEPT ![h] = Some(tok)]
                /\ IF ~parse_credentials(tok).ok
                   THEN /\ call' = [call EXCEPT ![h] =
                               Raised([@ EXCEPT !.fp = "ok", !.token = Some(tok)],
                                      "InvalidCredentialsError", "parse_credentials")]
                        /\ pc' = [pc EXCEPT ![h] = "idle"]
                        /\ hist' = [hist EXCEPT ![h].finish_done = TRUE]
                   ELSE /\ call' = [call EXCEPT ![h] =
                               [@ EXCEPT !.fp = "ok", !.token = Some(tok), !.n_vc = @ + 1]]
                        /\ pc' = [pc EXCEPT ![h] = "verify_credentials"]
                        /\ UNCHANGED hist
    /\ reply' = [reply EXCEPT ![h] = None]
    /\ UNCHANGED <<pin_code, has_paired, connection>>

\* finish(): finish_pairing is back; str(), parse_credentials, up to the await
\* of verify_credentials
FinishAfterPairing(h) ==
    /\ pc[h] = "finish_pairing"
    /\ ~IsNone(reply[h])
    /\ LET r == error_handler(Val(reply[h]), "PairingError")
           tok == ObjStr(r.val)
       IN  IF r.raised
           THEN /\ call' = [call EXCEPT ![h] =
                               Raised([@ EXCEPT !.fp = "fail"], r.error, "finish_pairing")]
                /\ pc' = [pc EXCEPT ![h] = "idle"]
                /\ hist' = [hist EXCEPT ![h].finish_done = TRUE]
           ELSE IF ~parse_credentials(tok).ok
           THEN /\ call' = [call EXCEPT ![h] =
                               Raised([@ EXCEPT !.fp = "ok", !.token = Some(tok)],
                                      "InvalidCredentialsError", "parse_credentials")]
                /\ pc' = [pc EXCEPT ![h] = "idle"]
                /\ hist' = [hist EXCEPT ![h].finish_done = TRUE]
           ELSE /\ call' = [call EXCEPT ![h] =
                               [@ EXCEPT !.fp = "ok", !.token = Some(tok), !.n_vc = @ + 1]]
                /\ pc' = [pc EXCEPT ![h] = "verify_credentials"]
                /\ UNCHANGED hist
    /\ reply' = [reply EXCEPT ![h] = None]
    /\ UNCHANGED <<pin_code, has_paired, credentials, connection>>

\* finish() that takes has_paired back when verify fails
FinishAfterVerify_ResetOnFail(h) ==
    /\ pc[h] = "verify_credentials"
    /\ ~IsNone(reply[h])
    /\ LET r == error_handler(Val(reply[h]), "PairingError") IN
       IF r.raised
       THEN /\ call' = [call EXCEPT ![h] =
                           Raised([@ EXCEPT !.vc = "fail"], r.error, "verify_credentials")]
            /\ has_paired' = [has_paired EXCEPT ![h] = FALSE]
            /\ UNCHANGED credentials
       ELSE /\ credentials' = [credentials EXCEPT ![h] = call[h].token]
            /\ has_paired' = [has_paired EXCEPT ![h] = TRUE]
            /\ call' = [call EXCEPT ![h] = Returned([@ EXCEPT !.vc = "ok", !.stored = TRUE])]
    /\ pc' = [pc EXCEPT ![h] = "idle"]
    /\ reply' = [reply EXCEPT ![h] = None]
    /\ hist' = [hist EXCEPT ![h].finish_done = TRUE,
                              ![h].last_ok = IF Val(reply[h]).ok THEN call[h].token ELSE @]
    /\ UNCHANGED <<pin_code, connection>>

\* finish() that stores the credential before it looks at the verify result
FinishAfterVerify_StoreFirst(h) ==
    /\ pc[h] = "verify_credentials"
    /\ ~IsNone(reply[h])
    /\ credentials' = [credentials EXCEPT ![h] = call[h].token]
    /\ LET r == error_handler(Val(reply[h]), "PairingError") IN
       IF r.raised
       THEN /\ call' = [call EXCEPT ![h] =
                           Raised([@ EXCEPT !.vc = "fail"], r.error, "verify_credentials")]
            /\ UNCHANGED has_paired
       ELSE /\ has_paired' = [has_paired EXCEPT ![h] = TRUE]
            /\ call' = [call EXCEPT ![h] = Returned([@ EXCEPT !.vc = "ok", !.stored = TRUE])]
    /\ pc' = [pc EXCEPT ![h] = "idle"]
    /\ reply' = [reply EXCEPT ![h] = None]
    /\ hist' = [hist EXCEPT ![h].finish_done = TRUE,
                              ![h].last_ok = IF Val(reply[h]).ok THEN call[h].token ELSE @]
    /\ UNCHANGED <<pin_code, connection>>

\* finish(): verify_credentials is back; store the credential, has paired
FinishAfterVerify(h) ==
    /\ pc[h] = "verify_credentials"
    /\ ~IsNone(reply[h])
    /\ LET r == error_handler(Val(reply[h]), "PairingError") IN
       IF r.raised
       THEN /\ call' = [call EXCEPT ![h] =
                           Raised([@ EXCEPT !.vc = "fail"], r.error, "verify_credentials")]
            /\ UNCHANGED <<credentials, has_paired>>
       ELSE /\ credentials' = [credentials EXCEPT ![h] = call[h].token]
            /\ has_paired' = [has_paired EXCEPT ![h] = TRUE]
            /\ call' = [call EXCEPT ![h] = Returned([@ EXCEPT !.vc = "ok", !.stored = TRUE])]
    /\ pc' = [pc EXCEPT ![h] = "idle"]
    /\ reply' = [reply EXCEPT ![h] = None]
    /\ hist' = [hist EXCEPT ![h].finish_done = TRUE,
                              ![h].last_ok = IF Val(reply[h]).ok THEN call[h].token ELSE @]
    /\ UNCHANGED <<pin_code, connection>>

\* close() that only closes the session manager and keeps the connection
Close_NoRelease(h) ==
    /\ call' = [call EXCEPT ![h].interrupted = @ \/ pc[h] # "idle"]
    /\ hist' = [hist EXCEPT ![h].closes = IF @ = 0 THEN 1 ELSE 2]
    /\ UNCHANGED <<pin_code, has_paired, credentials, connection, pc, reply>>

\* close(): connection.close(), then super().close(); a suspended begin() or
\* finish() is left as it is
Close(h) ==
    /\ connection' = [connection EXCEPT ![h] = ConnClose(@).state]
    /\ call' = [call EXCEPT ![h].interrupted = @ \/ pc[h] # "idle"]
    /\ hist' = [hist EXCEPT ![h].closes = IF @ = 0 THEN 1 ELSE 2,
                              ![h].close_raised = @ \/ ConnClose(connection[h]).raised]
    /\ UNCHANGED <<pin_code, has_paired, credentials, pc, reply>>

-----------------------------------------------------------------------------
(* AirPlay: pair_verify and verify_connection on one HttpConnection.  The   *)
(* tasks share one event loop: a task runs from one await to the next       *)
(* without another task seeing the steps in between (running = the task).   *)

AuthenticationType == {"Null", "Legacy", "HAP", "Transient"}
Tasks == {1, 2}

Identity == [fn |-> "identity", session |-> 0]
Decrypt(s) == [fn |-> "decrypt", session |-> s]
Encrypt(s) == [fn |-> "encrypt", session |-> s]

\* pair_verify without its last line: the HAP verifier for every other type
pair_verify_HapForAll(type) ==
    IF type = "Null" THEN "NullPairVerifyProcedure"
    ELSE IF type = "Legacy" THEN "AirPlayLegacyPairVerifyProcedure"
    ELSE "AirPlayHapPairVerifyProcedure"

\* pair_verify(credentials, connection): the verifier for credentials.type
pair_verify(type) ==
    IF type = "Null" THEN "NullPairVerifyProcedure"
    ELSE IF type = "Legacy" THEN "AirPlayLegacyPairVerifyProcedure"
    ELSE IF type = "HAP" THEN "AirPlayHapPairVerifyProcedure"
    ELSE "AirPlayHapTransientPairVerifyProcedure"

\* a Null verifier whose verify_credentials() returns True
VerifyOutcomes_NullTrue(verifier) ==
    IF verifier = "NullPairVerifyProcedure" THEN {"True"}
    ELSE {"True", "False", "raise"}

\* verify_credentials(): the Null verifier returns False without suspending;
\* the others exchange messages and return True or False, or raise
VerifyOutcomes(verifier) ==
    IF verifier = "NullPairVerifyProcedure" THEN {"False"}
    ELSE {"True", "False", "raise"}

\* encryption_keys(): the Null verifier raises NotSupportedError
KeysOutcomes(verifier) ==
    IF verifier = "NullPairVerifyProcedure" THEN {"NotSupportedError"}
    ELSE {"keys", "AuthenticationError"}

NoFrame ==
    [pc |-> "idle", status |-> "none", error |-> "", type |-> "Null",
     verifier |-> "", answer |-> "", has_encryption_keys |-> FALSE,
     keys |-> FALSE, session |-> 0, sets |-> 0]

InitAirPlay ==
    /\ receive_processor = Identity
    /\ send_processor = Identity
    /\ running = 0
    /\ task = [t \in Tasks |-> NoFrame]
    /\ ncalls = 0
    /\ installs = 0

\* verify_connection, lines 102-103: build the verifier, call verify_credentials
VCCall(t, type) ==
    /\ running = 0
    /\ task[t].pc = "idle"
    /\ ncalls < MaxCalls
    /\ ncalls' = ncalls + 1
    /\ LET v == pair_verify(type)
           f == [NoFrame EXCEPT !.status = "running", !.type = type, !.verifier = v]
       IN  IF v = "NullPairVerifyProcedure"
           THEN /\ \E a \in VerifyOutcomes(v) :
                      task' = [task EXCEPT ![t] = [f EXCEPT !.pc = "l105", !.answer = a]]
                /\ running' = t
           ELSE /\ task' = [task EXCEPT ![t] = [f EXCEPT !.pc = "l103"]]
                /\ running' = 0
    /\ UNCHANGED <<receive_processor, send_processor, installs>>

\* the Pair-Verify exchange with the device ends
VerifyDone(t) ==
    /\ task[t].pc = "l103"
    /\ task[t].answer = ""
    /\ \E a \in VerifyOutcomes(task[t].verifier) :
          task' = [task EXCEPT ![t].answer = a]
    /\ UNCHANGED <<receive_processor, send_processor, running, ncalls, installs>>

\* line 103: the await is over
VCResume(t) ==
    /\ running = 0
    /\ task[t].pc = "l103"
    /\ task[t].answer # ""
    /\ IF task[t].answer = "raise"
       THEN /\ task' = [task EXCEPT ![t].pc = "idle", ![t].status = "raised",
                                    ![t].error = "AuthenticationError"]
            /\ running' = 0
       ELSE /\ task' = [task EXCEPT ![t].pc = "l105"]
            /\ running' = t
    /\ UNCHANGED <<receive_processor, send_processor, ncalls, installs>>

\* verify_connection that derives keys whatever verify_credentials returned
VCBranch_AlwaysKeys(t) ==
    /\ running = t
    /\ task[t].pc = "l105"
    /\ task' = [task EXCEPT ![t].has_encryption_keys = (task[t].answer = "True"),
                            ![t].pc = "l106"]
    /\ UNCHANGED <<receive_processor, send_processor, running, ncalls, installs>>

\* lines 103-105: has_encryption_keys = ...; if has_encryption_keys
VCBranch(t) ==
    /\ running = t
    /\ task[t].pc = "l105"
    /\ LET has == (task[t].answer = "True") IN
       task' = [task EXCEPT ![t].has_encryption_keys = has,
                            ![t].pc = IF has THEN "l106" ELSE "l115"]
    /\ UNCHANGED <<receive_processor, send_processor, running, ncalls, installs>>

\* lines 106-108: output_key, input_key = verifier.encryption_keys(...)
VCKeys(t) ==
    /\ running = t
    /\ task[t].pc = "l106"
    /\ \E k \in KeysOutcomes(task[t].verifier) :
          IF k = "keys"
          THEN /\ task' = [task EXCEPT ![t].keys = TRUE, ![t].pc = "l110"]
               /\ UNCHANGED running
          ELSE /\ task' = [task EXCEPT ![t].pc = "idle", ![t].status = "raised",
                                       ![t].error = k]
               /\ running' = 0
    /\ UNCHANGED <<receive_processor, send_processor, ncalls, installs>>

\* lines 110-111: session = HAPSession(); session.enable(output_key, input_key)
VCSession(t) ==
    /\ running = t
    /\ task[t].pc = "l110"
    /\ task' = [task EXCEPT ![t].session = ncalls, ![t].pc = "l112"]
    /\ UNCHANGED <<receive_processor, send_processor, running, ncalls, installs>>

\* line 112: connection.receive_processor = session.decrypt
VCSetReceive(t) ==
    /\ running = t
    /\ task[t].pc = "l112"
    /\ receive_processor' = Decrypt(task[t].session)
    /\ task' = [task EXCEPT ![t].pc = "l113", ![t].sets = @ + 1]
    /\ UNCHANGED <<send_processor, running, ncalls, installs>>

\* line 113 written as a second assignment to receive_processor
VCSetSend_WrongHook(t) ==
    /\ running = t
    /\ task[t].pc = "l113"
    /\ receive_processor' = Encrypt(task[t].session)
    /\ task' = [task EXCEPT ![t].pc = "l115", ![t].sets = @ + 1]
    /\ installs' = installs + 1
    /\ UNCHANGED <<send_processor, running, ncalls>>

\* line 113: connection.send_processor = session.encrypt
VCSetSend(t) ==
    /\ running = t
    /\ task[t].pc = "l113"
    /\ send_processor' = Encrypt(task[t].session)
    /\ task' = [task EXCEPT ![t].pc = "l115", ![t].sets = @ + 1]
    /\ installs' = installs + 1
    /\ UNCHANGED <<receive_processor, running, ncalls>>

\* line 115: return verifier
VCReturn(t) ==
    /\ running = t
    /\ task[t].pc = "l115"
    /\ task' = [task EXCEPT ![t].pc = "idle", ![t].status = "returned"]
    /\ running' = 0
    /\ UNCHANGED <<receive_processor, send_processor, ncalls, installs>>

-----------------------------------------------------------------------------
(* AirPlay: pair_setup, pair_verify on a credentials value, and             *)
(* extract_credentials on a service                                         *)

\* a str of the features property: "0x" and hexadecimal digits
HexChars == <<"0", "1", "2", "3", "4", "5", "6", "7",
              "8", "9", "A", "B", "C", "D", "E", "F">>
HexDigit(ch) == (CHOOSE i \in 1..16 : HexChars[i] = ch) - 1

RECURSIVE HexVal(_)
HexVal(s) ==
    IF Len(s) = 0 THEN 0
    ELSE 16 * HexVal(SubSeq(s, 1, Len(s) - 1)) + HexDigit(s[Len(s)])

\* features.parse: the bitmask written in a "0x..." string
ft_parse(s) == HexVal(SubSeq(s, 3, Len(s)))

\* AirPlayFlags: bit numbers of the two pairing flags
SupportsCoreUtilsPairingAndEncryption == 27
SupportsSystemPairing == 28

RECURSIVE Pow2(_)
Pow2(n) == IF n = 0 THEN 1 ELSE 2 * Pow2(n - 1)

\* "flag in features"
HasFlag(bit, features) == (features \div Pow2(bit)) % 2 = 1

\* service.properties.get("features", "0x0")
FeaturesDefault == <<"0", "x", "0">>
GetFeatures(svc) == IF IsNone(svc.features) THEN FeaturesDefault ELSE Val(svc.features)

\* the sentinels of pyatv.auth.hap_pairing
NO_CREDENTIALS == [ok |-> TRUE, type |-> "Null", f |-> <<>>]
TRANSIENT_CREDENTIALS == [ok |-> TRUE, type |-> "Transient", f |-> <<>>]

LegacyToken == <<"idL", "keyL">>
BadToken == <<"junk">>

FeatureStrings ==
    { <<"0", "x", "0">>, <<"0", "x", "1">>,
      <<"0", "x", "7", "F", "F", "F", "F", "F", "F">>,
      <<"0", "x", "8", "0", "0", "0", "0", "0", "0">>,
      <<"0", "x", "1", "0", "0", "0", "0", "0", "0", "0">>,
      <<"0", "x", "1", "8", "0", "0", "0", "0", "0", "0">> }

ServiceValues ==
    [credentials : {None, Some(OldToken), Some(LegacyToken), Some(BadToken)},
     features : {None} \cup {Some(s) : s \in FeatureStrings}]

NoService == [credentials |-> None, features |-> None]

\* the record of a call: what was called, on what, and what came back
NoSel ==
    [op |-> "none", arg |-> "", raised |-> FALSE, error |-> "", proc |-> "",
     srp |-> "", seed |-> None, bound |-> None, cred |-> NO_CREDENTIALS, value |-> ""]

InitNoService == service = NoService /\ sel = NoSel

\* pair_setup with the HAP branch taken for every type but Legacy
pair_setup_HapFallthrough(auth_type) ==
    IF auth_type = "Legacy"
    THEN [NoSel EXCEPT !.proc = "AirPlayLegacyPairSetupProcedure",
                       !.srp = "LegacySRPAuthHandler"]
    ELSE [NoSel EXCEPT !.proc = "AirPlayHapPairSetupProcedure",
                       !.srp = "SRPAuthHandler"]

\* pair_setup(auth_type, connection), lines 62-73
pair_setup(auth_type) ==
    IF auth_type = "Legacy"
    THEN [NoSel EXCEPT !.proc = "AirPlayLegacyPairSetupProcedure",
                       !.srp = "LegacySRPAuthHandler"]
    ELSE IF auth_type = "HAP"
    THEN [NoSel EXCEPT !.proc = "AirPlayHapPairSetupProcedure",
                       !.srp = "SRPAuthHandler"]
    ELSE [NoSel EXCEPT !.raised = TRUE, !.error = "NotSupportedError"]

\* pair_verify(credentials, connection), lines 84-95: the verifier, the SRP
\* handler it is given and the credentials each of them is given
PairVerify(cr) ==
    IF cr.type = "Null"
    THEN [NoSel EXCEPT !.proc = pair_verify(cr.type)]
    ELSE IF cr.type = "Legacy"
    THEN [NoSel EXCEPT !.proc = pair_verify(cr.type),
                       !.srp = "LegacySRPAuthHandler", !.seed = Some(cr.f)]
    ELSE IF cr.type = "HAP"
    THEN [NoSel EXCEPT !.proc = pair_verify(cr.type),
                       !.srp = "SRPAuthHandler", !.bound = Some(cr.f)]
    ELSE [NoSel EXCEPT !.proc = pair_verify(cr.type), !.srp = "SRPAuthHandler"]

\* extract_credentials with "and" between the two flag tests
extract_credentials_BothFlags(svc) ==
    IF ~IsNone(svc.credentials)
    THEN parse_credentials(Val(svc.credentials))
    ELSE LET features == ft_parse(GetFeatures(svc)) IN
         IF HasFlag(SupportsSystemPairing, features)
               /\ HasFlag(SupportsCoreUtilsPairingAndEncryption, features)
         THEN TRANSIENT_CREDENTIALS
         ELSE NO_CREDENTIALS

\* extract_credentials(service), lines 120-130
extract_credentials(svc) ==
    IF ~IsNone(svc.credentials)
    THEN parse_credentials(Val(svc.credentials))
    ELSE LET features == ft_parse(GetFeatures(svc)) IN
         IF HasFlag(SupportsSystemPairing, features)
               \/ HasFlag(SupportsCoreUtilsPairingAndEncryption, features)
         THEN TRANSIENT_CREDENTIALS
         ELSE NO_CREDENTIALS

\* credentials values handed to pair_verify
CredentialValues ==
    {NO_CREDENTIALS, TRANSIENT_CREDENTIALS,
     parse_credentials(OldToken), parse_credentials(LegacyToken)}

\* a call of pair_setup
PairSetupCall(auth_type) ==
    /\ sel' = [pair_setup(auth_type) EXCEPT !.op = "pair_setup", !.arg = auth_type]
    /\ UNCHANGED service

\* a call of pair_verify
PairVerifyCall(cr) ==
    /\ sel' = [PairVerify(cr) EXCEPT !.op = "pair_verify", !.arg = cr.type, !.cred = cr]
    /\ UNCHANGED service

\* a call of extract_credentials; a token that does not parse raises
ExtractCall ==
    /\ LET cr == extract_credentials(service) IN
       sel' = IF cr.ok
              THEN [NoSel EXCEPT !.op = "extract_credentials", !.cred = cr]
              ELSE [NoSel EXCEPT !.op = "extract_credentials", !.raised = TRUE,
                                 !.error = "InvalidCredentialsError", !.cred = cr]
    /\ UNCHANGED service

\* pair_verify on what extract_credentials returned
ExtractThenVerify ==
    /\ sel.op = "extract_credentials" /\ ~sel.raised
    /\ PairVerifyCall(sel.cred)

\* the service record is replaced (a new scan result)
NewService(svc) ==
    /\ service' = svc
    /\ sel' = NoSel

\* NullPairVerifyProcedure.verify_credentials(), called on its own
NullVerifyCall ==
    /\ \E a \in VerifyOutcomes("NullPairVerifyProcedure") :
          sel' = [NoSel EXCEPT !.op = "Null.verify_credentials", !.value = a,
                               !.arg = sel.op]
    /\ UNCHANGED service

\* NullPairVerifyProcedure.encryption_keys(), called on its own
NullKeysCall ==
    /\ \E k \in KeysOutcomes("NullPairVerifyProcedure") :
          sel' = IF k = "keys"
                 THEN [NoSel EXCEPT !.op = "Null.encryption_keys", !.value = k,
                                    !.arg = sel.op]
                 ELSE [NoSel EXCEPT !.op = "Null.encryption_keys", !.raised = TRUE,
                                    !.error = k, !.arg = sel.op]
    /\ UNCHANGED service

-----------------------------------------------------------------------------
(* AppleTV: add_service and main_service *)

InitNoConf == services = <<>> /\ confres = <<>>

\* pyatv.const.Protocol
Protocol == {"MRP", "DMAP", "AirPlay", "RAOP", "Companion"}

\* a slot of the _services dict: obj = 0 when the key is absent, else the
\* service object stored under it and the objects merged into that one
NoEntry == [obj |-> 0, merged |-> {}]

NoConfCall ==
    [op |-> "none", arg |-> "None", raised |-> FALSE, error |-> "", msg |-> "",
     obj |-> 0, existing |-> 0]

\* the objects the configuration has seen
SeenObjects(svcs) ==
    UNION { {svcs[p].obj} \cup svcs[p].merged : p \in DOMAIN svcs } \ {0}

\* BaseService.merge(other): the existing object takes the other's data in
merge(entry, other) == [entry EXCEPT !.merged = @ \cup {other}]

\* add_service(service), lines 81-85
add_service(svcs, protocol, obj) ==
    IF svcs[protocol].obj # 0
    THEN [svcs EXCEPT ![protocol] = merge(@, obj)]
    ELSE [svcs EXCEPT ![protocol] = [obj |-> obj, merged |-> {}]]

\* main_service: the list of protocols looked at, lines 102-106
main_protocols(protocol) ==
    IF protocol # "None" THEN <<protocol>>
    ELSE <<"MRP", "DMAP", "AirPlay", "RAOP">>

\* main_service: the loop of lines 108-111 and the raise of line 113
RECURSIVE main_lookup(_, _)
main_lookup(svcs, protocols) ==
    IF Len(protocols) = 0
    THEN [NoConfCall EXCEPT !.raised = TRUE, !.error = "NoServiceError",
                            !.msg = "no service to connect to"]
    ELSE IF svcs[Head(protocols)].obj # 0
    THEN [NoConfCall EXCEPT !.obj = svcs[Head(protocols)].obj]
    ELSE main_lookup(svcs, Tail(protocols))

\* main_service with Companion at the end of the default list
main_service_WithCompanion(svcs, protocol) ==
    main_lookup(svcs, IF protocol # "None" THEN <<protocol>>
                      ELSE <<"MRP", "DMAP", "AirPlay", "RAOP", "Companion">>)

\* main_service(protocol=None), lines 100-113
main_service(svcs, protocol) == main_lookup(svcs, main_protocols(protocol))

InitConf ==
    /\ services = [p \in Protocol |-> NoEntry]
    /\ confres = NoConfCall

\* a call of add_service with a new service object of the protocol
AddService(protocol) ==
    /\ Cardinality(SeenObjects(services)) < MaxServices
    /\ LET obj == Cardinality(SeenObjects(services)) + 1 IN
       /\ services' = add_service(services, protocol, obj)
       /\ confres' = [NoConfCall EXCEPT !.op = "add_service", !.arg = protocol,
                                        !.obj = obj,
                                        !.existing = services[protocol].obj]

\* a call of main_service
MainService(protocol) ==
    /\ confres' = [main_service(services, protocol) EXCEPT
                      !.op = "main_service", !.arg = protocol]
    /\ UNCHANGED services

-----------------------------------------------------------------------------
(* One handler, driven by a caller that awaits begin() and finish() before   *)
(* the next of the two, and may call pin() and close() at any time           *)

Init ==
    /\ InitHandlers({1})
    /\ receive_processor = Identity
    /\ send_processor = Identity
    /\ running = 0
    /\ task = <<>>
    /\ ncalls = 0
    /\ installs = 0
    /\ InitNoService
    /\ InitNoConf

Next ==
    \/ \E h \in Handlers : Begin(h) /\ UNCHANGED <<avars, svars, cvars>>
    \/ \E h \in Handlers : DeviceReply(h) /\ UNCHANGED <<avars, svars, cvars>>
    \/ \E h \in Handlers : BeginResume(h) /\ UNCHANGED <<avars, svars, cvars>>
    \/ \E h \in Handlers : \E p \in PinInputs : Pin(h, p) /\ UNCHANGED <<avars, svars, cvars>>
    \/ \E h \in Handlers : Finish(h) /\ UNCHANGED <<avars, svars, cvars>>
    \/ \E h \in Handlers : FinishAfterPairing(h) /\ UNCHANGED <<avars, svars, cvars>>
    \/ \E h \in Handlers : FinishAfterVerify(h) /\ UNCHANGED <<avars, svars, cvars>>
    \/ \E h \in Handlers : Close(h) /\ UNCHANGED <<avars, svars, cvars>>

Spec == Init /\ [][Next]_vars

-----------------------------------------------------------------------------
(* Two handlers, each with its own service and connection, driven by two     *)
(* callers; each caller calls begin() once, gives one PIN and has one        *)
(* finish() call reach the device                                            *)

TwoPins == {IntPin(0), StrPin(<<"1", "2", "3", "4", "5">>)}

Init2 ==
    /\ InitHandlers({1, 2})
    /\ credentials = [h \in {1, 2} |-> IF h = 1 THEN None ELSE Some(OldToken)]
    /\ receive_processor = Identity
    /\ send_processor = Identity
    /\ running = 0
    /\ task = <<>>
    /\ ncalls = 0
    /\ installs = 0
    /\ InitNoService
    /\ InitNoConf

Next2 ==
    \/ \E h \in Handlers :
          (~hist[h].begin_called /\ Begin(h)) /\ UNCHANGED <<avars, svars, cvars>>
    \/ \E h \in Handlers : DeviceReply(h) /\ UNCHANGED <<avars, svars, cvars>>
    \/ \E h \in Handlers : BeginResume(h) /\ UNCHANGED <<avars, svars, cvars>>
    \/ \E h \in Handlers : \E p \in TwoPins :
          (IsNone(pin_code[h]) /\ Pin(h, p)) /\ UNCHANGED <<avars, svars, cvars>>
    \/ \E h \in Handlers :
          (~hist[h].finish_done /\ Finish(h)) /\ UNCHANGED <<avars, svars, cvars>>
    \/ \E h \in Handlers : FinishAfterPairing(h) /\ UNCHANGED <<avars, svars, cvars>>
    \/ \E h \in Handlers : FinishAfterVerify(h) /\ UNCHANGED <<avars, svars, cvars>>
    \/ \E h \in Handlers : Close(h) /\ UNCHANGED <<avars, svars, cvars>>

Spec2 == Init2 /\ [][Next2]_vars

-----------------------------------------------------------------------------
(* verify_connection calls, from two tasks, on one connection *)

InitA == InitHandlers({}) /\ InitAirPlay /\ InitNoService /\ InitNoConf

NextA ==
    \/ \E t \in Tasks : \E type \in AuthenticationType : VCCall(t, type) /\ UNCHANGED <<hvars, svars, cvars>>
    \/ \E t \in Tasks : VerifyDone(t) /\ UNCHANGED <<hvars, svars, cvars>>
    \/ \E t \in Tasks : VCResume(t) /\ UNCHANGED <<hvars, svars, cvars>>
    \/ \E t \in Tasks : VCBranch(t) /\ UNCHANGED <<hvars, svars, cvars>>
    \/ \E t \in Tasks : VCKeys(t) /\ UNCHANGED <<hvars, svars, cvars>>
    \/ \E t \in Tasks : VCSession(t) /\ UNCHANGED <<hvars, svars, cvars>>
    \/ \E t \in Tasks : VCSetReceive(t) /\ UNCHANGED <<hvars, svars, cvars>>
    \/ \E t \in Tasks : VCSetSend(t) /\ UNCHANGED <<hvars, svars, cvars>>
    \/ \E t \in Tasks : VCReturn(t) /\ UNCHANGED <<hvars, svars, cvars>>
    \/ NullVerifyCall /\ UNCHANGED <<hvars, avars, cvars>>
    \/ NullKeysCall /\ UNCHANGED <<hvars, avars, cvars>>

SpecA == InitA /\ [][NextA]_vars

-----------------------------------------------------------------------------
(* The selection functions, called on a service that a scan may replace *)

InitS ==
    /\ InitHandlers({})
    /\ receive_processor = Identity
    /\ send_processor = Identity
    /\ running = 0
    /\ task = <<>>
    /\ ncalls = 0
    /\ installs = 0
    /\ service \in ServiceValues
    /\ sel = NoSel
    /\ InitNoConf

NextS ==
    \/ \E a \in AuthenticationType : PairSetupCall(a) /\ UNCHANGED <<hvars, avars, cvars>>
    \/ \E cr \in CredentialValues : PairVerifyCall(cr) /\ UNCHANGED <<hvars, avars, cvars>>
    \/ ExtractCall /\ UNCHANGED <<hvars, avars, cvars>>
    \/ ExtractThenVerify /\ UNCHANGED <<hvars, avars, cvars>>
    \/ \E svc \in ServiceValues : NewService(svc) /\ UNCHANGED <<hvars, avars, cvars>>

SpecS == InitS /\ [][NextS]_vars

-----------------------------------------------------------------------------
(* A configuration to which services are added and whose main service is    *)
(* asked for                                                                 *)

InitC ==
    /\ InitHandlers({})
    /\ receive_processor = Identity
    /\ send_processor = Identity
    /\ running = 0
    /\ task = <<>>
    /\ ncalls = 0
    /\ installs = 0
    /\ InitNoService
    /\ InitConf

NextC ==
    \/ \E p \in Protocol : AddService(p) /\ UNCHANGED <<hvars, avars, svars>>
    \/ \E p \in Protocol \cup {"None"} : MainService(p) /\ UNCHANGED <<hvars, avars, svars>>

SpecC == InitC /\ [][NextC]_vars

-----------------------------------------------------------------------------
(* Properties of MrpPairingHandler, under Spec *)

\* C1: has_paired and service.credentials change only in the step of a
\* finish() call in which its verify_credentials came back successfully, after
\* the finish_pairing of that same call succeeded; the credential stored is
\* the token of that call.  The step in which verify fails changes neither.
C1_StoredOnlyAfterVerify ==
    [][\A h \in Handlers :
         /\ (has_paired'[h] # has_paired[h] \/ credentials'[h] # credentials[h]) =>
               /\ call[h].name = "finish" /\ call[h].status = "running"
               /\ call[h].fp = "ok" /\ call[h].vc = "-"
               /\ call'[h].vc = "ok" /\ call'[h].status = "returned"
               /\ has_paired'[h]
               /\ credentials'[h] = call[h].token
         /\ (call'[h].vc = "fail" /\ call[h].vc # "fail") =>
               /\ has_paired'[h] = has_paired[h]
               /\ credentials'[h] = credentials[h]
      ]_vars

C1_Witness ==
    \E h \in Handlers :
        /\ has_paired[h]
        /\ call[h].name = "finish" /\ call[h].status = "returned"
        /\ call[h].fp = "ok" /\ call[h].vc = "ok"
        /\ credentials[h] = call[h].token
        /\ credentials[h] # call[h].cred_before

\* C2: a finish() call that raised (no PIN, finish_pairing failed, the token
\* did not parse, verify failed) leaves service.credentials as it was when
\* the call was made.
C2_FailedFinishKeepsCredentials ==
    \A h \in Handlers :
        (call[h].name = "finish" /\ call[h].status = "raised") =>
            credentials[h] = call[h].cred_before

C2_Witness ==
    \E h \in Handlers :
        /\ call[h].name = "finish" /\ call[h].status = "raised"
        /\ call[h].vc = "fail"
        /\ call[h].cred_before = Some(OldToken)
        /\ call[h].token # call[h].cred_before

\* C3: finish() on a handler on which pin() was never called raises
\* PairingError("no pin given") at once: no finish_pairing, no Pair-Verify,
\* and has_paired is false.
C3_NoPinGiven ==
    \A h \in Handlers :
        (call[h].name = "finish" /\ ~call[h].pin_given) =>
            /\ call[h].status = "raised"
            /\ call[h].error = "PairingError" /\ call[h].msg = "no pin given"
            /\ call[h].n_fp = 0 /\ call[h].n_vc = 0
            /\ pc[h] = "idle"
            /\ ~has_paired[h]

C3_Witness ==
    \E h \in Handlers :
        /\ call[h].name = "finish" /\ ~call[h].pin_given
        /\ call[h].begun
        /\ call[h].msg = "no pin given"

\* C4: a finish() call made after an earlier finish() call of the handler has
\* completed fails at once, without a finish_pairing or verify exchange.
C4_SecondFinishFailsAtOnce ==
    \A h \in Handlers :
        (call[h].name = "finish" /\ call[h].after_finish) =>
            /\ call[h].status = "raised"
            /\ call[h].n_fp = 0 /\ call[h].n_vc = 0

\* C5: the handler holds a PIN only after begin() was called on it, and
\* finish() reaches finish_pairing only after begin().
C5_PinOnlyAfterBegin ==
    \A h \in Handlers :
        /\ ~IsNone(pin_code[h]) => hist[h].begin_called
        /\ (call[h].name = "finish" /\ call[h].n_fp > 0) => call[h].begun

\* C6: a failed exchange ends the begin() or finish() call awaiting it with
\* PairingError, and no step of a begin() call that is made or that fails
\* changes the PIN, has_paired or service.credentials.
C6_FailuresArePairingErrors ==
    [][\A h \in Handlers :
         /\ (pc[h] # "idle" /\ pc'[h] # pc[h] /\ ~Val(reply[h]).ok) =>
               /\ pc'[h] = "idle"
               /\ call'[h].status = "raised"
               /\ call'[h].error = "PairingError"
         /\ ((pc'[h] = "start_pairing" /\ pc[h] # "start_pairing")
               \/ (pc[h] = "start_pairing" /\ call'[h].status = "raised")) =>
               /\ pin_code'[h] = pin_code[h]
               /\ has_paired'[h] = has_paired[h]
               /\ credentials'[h] = credentials[h]
      ]_vars

C6_Witness ==
    \E h \in Handlers :
        /\ call[h].name = "begin" /\ call[h].status = "raised"
        /\ call[h].error = "PairingError"
        /\ ~IsNone(pin_code[h])
        /\ pc[h] = "idle"

\* C7: close() leaves the connection closed whatever the handler was doing,
\* raises nothing, and changes neither has_paired nor service.credentials; a
\* close() of a handler that is already closed changes nothing at all.
C7_CloseIdempotent ==
    [][\A h \in Handlers :
         Close(h) =>
            /\ connection'[h] = "closed"
            /\ ~hist'[h].close_raised
            /\ has_paired'[h] = has_paired[h]
            /\ credentials'[h] = credentials[h]
            /\ (hist[h].closes > 0 =>
                  UNCHANGED <<pin_code, has_paired, credentials, connection, pc, reply>>)
      ]_vars

C7_Witness ==
    \E h \in Handlers :
        /\ hist[h].closes = 2
        /\ connection[h] = "closed"
        /\ has_paired[h]

\* C8: a finish() call during which close() was called does not store a
\* credential or set has_paired afterwards.
C8_CloseAbortsFinish ==
    \A h \in Handlers :
        ~(call[h].name = "finish" /\ call[h].interrupted /\ call[h].stored)

\* C17: a begin() call starts start_pairing once and nothing else, a finish()
\* call starts finish_pairing at most once and verify_credentials at most
\* once, and a call that has raised awaits nothing: after a failed step the
\* call starts no further exchange.
C17_NoRetry ==
    \A h \in Handlers :
        /\ call[h].n_start <= 1 /\ call[h].n_fp <= 1 /\ call[h].n_vc <= 1
        /\ call[h].name = "begin" => (call[h].n_fp = 0 /\ call[h].n_vc = 0)
        /\ call[h].name = "finish" => call[h].n_start = 0
        /\ call[h].fp = "fail" => call[h].n_vc = 0
        /\ call[h].status \in {"raised", "returned"} =>
              (pc[h] = "idle" /\ IsNone(reply[h]))
        /\ (call[h].fp = "fail" \/ call[h].vc = "fail") => call[h].status = "raised"

C17_Witness ==
    \E h \in Handlers :
        /\ call[h].name = "finish" /\ call[h].status = "raised"
        /\ call[h].fp = "fail" /\ call[h].n_fp = 1
        /\ connection[h] = "open"

\* C18: pin(value) stores str(value) padded on the left with zeros (after a
\* sign, if it has one) to a width of at least four, so the stored PIN is
\* never empty; it starts no exchange and leaves has_paired, the connection,
\* service.credentials and a call in progress as they are.
C18_PinNormalized ==
    [][\A h \in Handlers : \A p \in PinInputs :
         Pin(h, p) =>
            /\ ~IsNone(pin_code'[h])
            /\ LET s == PyStr(p)
                   r == Val(pin_code'[h])
                   k == IF Len(s) > 0 /\ s[1] \in {"+", "-"} THEN 1 ELSE 0
               IN  /\ Len(r) >= PinWidth /\ Len(r) > 0
                   /\ Len(r) >= Len(s)
                   /\ Len(r) > PinWidth => r = s
                   /\ \A i \in 1..k : r[i] = s[i]
                   /\ \A i \in 1..(Len(s) - k) : r[Len(r) - i + 1] = s[Len(s) - i + 1]
                   /\ \A i \in (k + 1)..(Len(r) - Len(s) + k) : r[i] = "0"
            /\ has_paired'[h] = has_paired[h]
            /\ connection'[h] = connection[h]
            /\ credentials'[h] = credentials[h]
            /\ pc'[h] = pc[h] /\ reply'[h] = reply[h] /\ call'[h] = call[h]
      ]_vars

C18_Witness ==
    \E h \in Handlers :
        /\ pin_code[h] = Some(<<"-", "0", "0", "7">>)
        /\ pc[h] = "finish_pairing"
        /\ ~has_paired[h]

\* C20: has_paired is false on a handler on which nothing was called, never
\* goes back from true to false, and while it is true service.credentials is
\* the token of the last finish() of the handler that succeeded.
C20_HasPairedMonotone ==
    /\ \A h \in Handlers : ~has_paired[h]
    /\ [][\A h \in Handlers :
            /\ has_paired[h] => has_paired'[h]
            /\ has_paired'[h] =>
                  (~IsNone(credentials'[h]) /\ credentials'[h] = hist'[h].last_ok)
         ]_vars

C20_Witness ==
    \E h \in Handlers :
        /\ has_paired[h]
        /\ call[h].name = "finish" /\ call[h].status = "raised"
        /\ call[h].vc = "fail"
        /\ credentials[h] = hist[h].last_ok
        /\ hist[h].closes > 0

-----------------------------------------------------------------------------
(* Properties of two handlers, under Spec2 *)

\* a step of an operation called on handler h, or of its exchange
HandlerStep(h) ==
    \/ Begin(h) \/ DeviceReply(h) \/ BeginResume(h)
    \/ \E p \in TwoPins : Pin(h, p)
    \/ Finish(h) \/ FinishAfterPairing(h) \/ FinishAfterVerify(h)
    \/ Close(h)

\* C16: with two handlers on two services, a step of begin, pin, finish or
\* close on one handler leaves the other handler's PIN, has_paired flag,
\* connection and service credential as they were.
C16_HandlersIndependent ==
    [][\A h \in Handlers : \A g \in Handlers \ {h} :
         HandlerStep(h) =>
            /\ pin_code'[g] = pin_code[g]
            /\ has_paired'[g] = has_paired[g]
            /\ connection'[g] = connection[g]
            /\ credentials'[g] = credentials[g]
      ]_vars

C16_Witness ==
    /\ Handlers = {1, 2}
    /\ has_paired[1] /\ ~has_paired[2]
    /\ credentials[1] = Some(CredA.f) /\ credentials[2] = Some(OldToken)
    /\ ~IsNone(pin_code[1]) /\ ~IsNone(pin_code[2]) /\ pin_code[1] # pin_code[2]
    /\ connection[1] = "open" /\ connection[2] = "closed"

-----------------------------------------------------------------------------
(* Properties of verify_connection, under SpecA *)

Passthrough == receive_processor = Identity /\ send_processor = Identity
Encrypted ==
    \E s \in 1..MaxCalls :
        receive_processor = Decrypt(s) /\ send_processor = Encrypt(s)

\* C9: whenever no task is in the middle of a step (so at every await, and
\* after a call has returned or raised) the two hooks are both the
\* pass-through or both the transforms of one session; a call that returns
\* after verify_credentials() gave true leaves neither hook the pass-through.
C9_NeverPartlyEncrypted ==
    /\ running = 0 => (Passthrough \/ Encrypted)
    /\ \A t \in Tasks :
          (task[t].status = "returned" /\ task[t].has_encryption_keys) =>
              /\ receive_processor.fn = "decrypt"
              /\ send_processor.fn = "encrypt"

C9_Witness ==
    /\ running = 0
    /\ Encrypted
    /\ \E t \in Tasks :
          /\ task[t].status = "returned" /\ task[t].has_encryption_keys
          /\ receive_processor = Decrypt(task[t].session)
    /\ \E t \in Tasks : task[t].pc = "l103"

\* C10: over all verify_connection calls on the connection the hooks are
\* installed at most once.
C10_InstalledOnce == installs <= 1

\* C11: encryption_keys is called only in a call whose verify_credentials()
\* returned true; a hook is assigned only by a call whose encryption_keys
\* returned a key pair; a call that raised, at verify_credentials() or at
\* encryption_keys, assigned neither hook.
C11_EncryptedOnlyAfterKeys ==
    [][/\ \A t \in Tasks :
            /\ task'[t].pc \in {"l106", "l110", "l112", "l113"} =>
                  task'[t].answer = "True"
            /\ task'[t].keys => task'[t].answer = "True"
            /\ task'[t].sets > 0 => task'[t].keys
            /\ task'[t].status = "raised" => task'[t].sets = 0
       /\ (receive_processor' # receive_processor \/ send_processor' # send_processor) =>
            /\ running # 0
            /\ task[running].keys
            /\ task[running].answer = "True"
      ]_vars

C11_Witness ==
    \E t \in Tasks :
        /\ task[t].status = "raised"
        /\ task[t].has_encryption_keys
        /\ task[t].sets = 0 /\ ~task[t].keys
        /\ Passthrough

\* C15: called on its own, in any order, verify_credentials() of the Null
\* verifier returns False and its encryption_keys raises NotSupportedError; a
\* verify_connection call with Null credentials never reaches
\* encryption_keys, raises nothing and assigns neither hook.
C15_NullVerifier ==
    [][/\ sel'.op = "Null.verify_credentials" => (sel'.value = "False" /\ ~sel'.raised)
       /\ sel'.op = "Null.encryption_keys" =>
             (sel'.raised /\ sel'.error = "NotSupportedError")
       /\ \A t \in Tasks :
             (task'[t].type = "Null" /\ task'[t].status # "none") =>
                /\ task'[t].pc \in {"l105", "l115", "idle"}
                /\ task'[t].status # "raised"
                /\ ~task'[t].keys /\ task'[t].sets = 0
                /\ task'[t] # task[t] =>
                      (receive_processor' = receive_processor
                          /\ send_processor' = send_processor)
      ]_vars

C15_Witness ==
    /\ sel.op = "Null.encryption_keys" /\ sel.arg = "Null.verify_credentials"
    /\ sel.raised
    /\ \E t \in Tasks :
          /\ task[t].type = "Null" /\ task[t].status = "returned"
          /\ ~task[t].has_encryption_keys
    /\ Passthrough

-----------------------------------------------------------------------------
(* Properties of the selection functions, under SpecS *)

\* C12: pair_setup returns the Legacy Pair-Setup procedure for Legacy, the
\* HAP Pair-Setup procedure for HAP, and for every other type raises
\* NotSupportedError and returns no procedure.
C12_PairSetupByType ==
    sel.op = "pair_setup" =>
        /\ sel.arg = "Legacy" =>
              (~sel.raised /\ sel.proc = "AirPlayLegacyPairSetupProcedure")
        /\ sel.arg = "HAP" =>
              (~sel.raised /\ sel.proc = "AirPlayHapPairSetupProcedure")
        /\ sel.arg \in {"Transient", "Null"} =>
              (sel.raised /\ sel.error = "NotSupportedError" /\ sel.proc = "")

C12_Witness ==
    /\ sel.op = "pair_setup" /\ sel.arg = "Transient"
    /\ sel.raised /\ sel.error = "NotSupportedError"

\* C13: pair_verify returns the Null verifier for Null, the Legacy verifier
\* with an SRP handler seeded with the credentials for Legacy, the HAP
\* verifier given the credentials for HAP, and the transient HAP verifier,
\* given no credentials, for any other type; it does not raise.
C13_PairVerifyByType ==
    sel.op = "pair_verify" =>
        /\ ~sel.raised
        /\ sel.arg = "Null" => sel.proc = "NullPairVerifyProcedure"
        /\ sel.arg = "Legacy" =>
              /\ sel.proc = "AirPlayLegacyPairVerifyProcedure"
              /\ sel.seed = Some(sel.cred.f)
        /\ sel.arg = "HAP" =>
              /\ sel.proc = "AirPlayHapPairVerifyProcedure"
              /\ sel.bound = Some(sel.cred.f)
        /\ sel.arg \notin {"Null", "Legacy", "HAP"} =>
              /\ sel.proc = "AirPlayHapTransientPairVerifyProcedure"
              /\ sel.bound = None /\ sel.seed = None

C13_Witness ==
    /\ sel.op = "pair_verify" /\ sel.arg = "Transient"
    /\ sel.proc = "AirPlayHapTransientPairVerifyProcedure"
    /\ service.credentials = None
    /\ service.features = Some(<<"0", "x", "1", "8", "0", "0", "0", "0", "0", "0">>)

\* the bits set in the number a features string writes
BitSet(bit, svc) ==
    LET n == HexVal(Tail(Tail(GetFeatures(svc)))) IN n % Pow2(bit + 1) >= Pow2(bit)

\* C14: extract_credentials gives the parse of service.credentials when one
\* is stored, whatever the features; with none stored it gives the Transient
\* sentinel iff one of the two pairing bits is set in the features (0x0 when
\* absent) and the no-credentials sentinel otherwise; the service is not
\* changed by the call.
C14_ExtractCredentials ==
    [][sel'.op = "extract_credentials" =>
         /\ service' = service
         /\ IF service.credentials # None
            THEN /\ sel'.cred = parse_credentials(Val(service.credentials))
                 /\ sel'.raised = ~sel'.cred.ok
            ELSE /\ ~sel'.raised
                 /\ sel'.cred =
                      IF BitSet(SupportsSystemPairing, service)
                            \/ BitSet(SupportsCoreUtilsPairingAndEncryption, service)
                      THEN TRANSIENT_CREDENTIALS
                      ELSE NO_CREDENTIALS
      ]_vars

C14_Witness ==
    /\ sel.op = "extract_credentials"
    /\ service.credentials = None
    /\ service.features = Some(<<"0", "x", "8", "0", "0", "0", "0", "0", "0">>)
    /\ sel.cred = TRANSIENT_CREDENTIALS

-----------------------------------------------------------------------------
(* Properties of AppleTV, under SpecC *)

Registered == {p \in Protocol : services[p].obj # 0}
Rank == [p \in {"MRP", "DMAP", "AirPlay", "RAOP"} |->
            CASE p = "MRP" -> 1 [] p = "DMAP" -> 2 [] p = "AirPlay" -> 3 [] p = "RAOP" -> 4]

\* C19: main_service(protocol) returns the service registered for the
\* protocol; main_service() returns the registered service that comes first
\* in the order MRP, DMAP, AirPlay, RAOP; both raise NoServiceError("no
\* service to connect to") when there is none (with only a Companion service
\* too); add_service keeps one service per protocol and merges a second
\* service of a protocol into the one already there.
C19_MainService ==
    /\ confres.op = "main_service" =>
          LET cand == IF confres.arg # "None" THEN Registered \cap {confres.arg}
                      ELSE Registered \cap DOMAIN Rank
          IN  IF cand = {}
              THEN /\ confres.raised /\ confres.error = "NoServiceError"
                   /\ confres.msg = "no service to connect to"
                   /\ confres.obj = 0
              ELSE /\ ~confres.raised
                   /\ \E p \in cand :
                         /\ confres.obj = services[p].obj
                         /\ confres.arg = "None" => \A q \in cand : Rank[p] <= Rank[q]
    /\ confres.op = "add_service" =>
          IF confres.existing # 0
          THEN /\ services[confres.arg].obj = confres.existing
               /\ confres.obj \in services[confres.arg].merged
          ELSE /\ services[confres.arg].obj = confres.obj
               /\ services[confres.arg].merged = {}
    /\ \A p, q \in Registered : services[p].obj = services[q].obj => p = q

C19_Witness ==
    /\ confres.op = "main_service" /\ confres.arg = "None"
    /\ confres.raised
    /\ services["Companion"].obj # 0
    /\ services["Companion"].merged # {}

====
